---- MODULE Spec2Model ----
(***************************************************************************)
(* A model of apputil.MarkovText: the k-word Markov transition table built *)
(* by get_term_dict and the random walk over it performed by generate.     *)
(*                                                                         *)
(* A str is a sequence of one-character strings.  A dictionary key (and a  *)
(* seed) is a record [tuple, words]: a bare str token is                   *)
(* [tuple |-> FALSE, words |-> <<token>>], a Python tuple of tokens is     *)
(* [tuple |-> TRUE, words |-> <<t1, ..., tn>>]; the two never compare      *)
(* equal, as in Python.                                                    *)
(***************************************************************************)
EXTENDS Integers, Sequences, FiniteSets, TLC

\* ------------------------------------------------------------------ bounds

MaxCorpusLen == 8
MaxK == 2
MaxTermCount == 4

\* The characters a corpus is written with: one letter and one whitespace, so
\* that its tokens are "a", "aa", "aaa", ... separated by runs of spaces.
Alphabet == {"a", " "}
\* The characters str.split() treats as separators.
Whitespace == {" ", "\t", "\n", "\r"}
\* A token that no corpus over Alphabet contains.
Foreign == <<"z">>

TermCounts == (0 - 1) .. MaxTermCount

Min(x, y) == IF x <= y THEN x ELSE y
Max(x, y) == IF x >= y THEN x ELSE y
Range(s) == {s[j] : j \in 1 .. Len(s)}

RECURSIVE StringsUpTo(_)
StringsUpTo(n) ==
    IF n = 0 THEN {<<>>}
    ELSE LET S == StringsUpTo(n - 1)
         IN  S \cup {Append(s, c) : s \in {t \in S : Len(t) = n - 1}, c \in Alphabet}

\* ------------------------------------------------------- str.split, ' '.join

\* corpus.split(): cut at every run of whitespace, no empty token is produced.
RECURSIVE SplitFrom(_, _, _, _)
SplitFrom(s, j, cur, acc) ==
    IF j > Len(s)
    THEN IF cur = <<>> THEN acc ELSE Append(acc, cur)
    ELSE IF s[j] \in Whitespace
         THEN SplitFrom(s, j + 1, <<>>, IF cur = <<>> THEN acc ELSE Append(acc, cur))
         ELSE SplitFrom(s, j + 1, Append(cur, s[j]), acc)

split(s) == SplitFrom(s, 1, <<>>, <<>>)

\* A faulty variant of join: ''.join(words), the separator forgotten.
RECURSIVE joinNoSeparator(_)
joinNoSeparator(words) ==
    IF words = <<>> THEN <<>> ELSE words[1] \o joinNoSeparator(Tail(words))

\* ' '.join(words): the words with one space between neighbours.
RECURSIVE join(_)
join(words) ==
    IF words = <<>> THEN <<>>
    ELSE IF Len(words) = 1 THEN words[1]
    ELSE words[1] \o <<" ">> \o join(Tail(words))

\* ------------------------------------------------------------------- keys

Str(token) == [tuple |-> FALSE, words |-> <<token>>]
Tuple(ws) == [tuple |-> TRUE, words |-> ws]
\* The value of a variable that holds no key (None, or not yet assigned).
NoKey == [tuple |-> FALSE, words |-> <<>>]

\* tokens[i:i + n] with Python's 0-based i, clipped at the end of the list.
Slice(tokens, i, n) ==
    [j \in 1 .. Max(0, Min(n, Len(tokens) - i)) |-> tokens[i + j]]

\* Lines 40-43: the key for the window that starts at 0-based index i.
StateAt(tokens, kk, i) ==
    IF kk = 1 THEN Str(tokens[i + 1]) ELSE Tuple(Slice(tokens, i, kk))

\* A faulty variant of AppendTo: insert(0, next_token), the newest successor first.
AppendToFront(d, key, token) ==
    IF key \in DOMAIN d
    THEN [d EXCEPT ![key] = <<token>> \o @]
    ELSE [x \in DOMAIN d \cup {key} |-> IF x = key THEN <<token>> ELSE d[x]]

\* Line 49: term_dict[current_state].append(next_token) on a defaultdict(list).
AppendTo(d, key, token) ==
    IF key \in DOMAIN d
    THEN [d EXCEPT ![key] = Append(@, token)]
    ELSE [x \in DOMAIN d \cup {key} |-> IF x = key THEN <<token>> ELSE d[x]]

\* A faulty variant of BuildRange: range(len(tokens) - self.k - 1), one window short.
BuildRangeShort(tokens, kk) == Max(0, Len(tokens) - kk - 1)

\* Line 38: range(len(tokens) - self.k), empty when the difference is <= 0.
BuildRange(tokens, kk) == Max(0, Len(tokens) - kk)

\* Lines 38-49: the loop, from index i on, over the dictionary built so far.
RECURSIVE BuildFrom(_, _, _, _)
BuildFrom(tokens, kk, i, d) ==
    IF i >= BuildRange(tokens, kk) THEN d
    ELSE BuildFrom(tokens, kk, i + 1,
                   AppendTo(d, StateAt(tokens, kk, i), tokens[i + kk + 1]))

EmptyDict == [x \in {} |-> <<>>]

\* Lines 31-52: the dictionary get_term_dict computes for a corpus and k.
BuildTable(c, kk) == BuildFrom(split(c), kk, 0, EmptyDict)

\* ------------------------------------------------------------------ state

VARIABLES
    corpus,             \* self.corpus
    k,                  \* self.k
    term_dict,          \* self.term_dict when it is not None
    term_dict_is_none,  \* self.term_dict is None
    build_ran,          \* lines 31-52 ran in the current call
    pc,                 \* "idle" | "loop" | "returned" | "raised"
    op,                 \* the method of the current call
    seed_is_none,       \* seed_term is None
    seed_term,          \* the seed_term argument when it is not None
    term_count,         \* the term_count argument
    current_state,      \* generate's local
    generated_words,    \* generate's local
    words_to_generate,  \* generate's local
    iters,              \* iterations of the line-104 loop that appended a word
    broke,              \* the loop was left through break
    exc,                \* class of the exception raised, "" if none
    msg,                \* message of the exception raised
    msg_seed,           \* the seed formatted into the message
    output              \* the str generate returned

vars == <<corpus, k, term_dict, term_dict_is_none, build_ran, pc, op, seed_is_none,
          seed_term, term_count, current_state, generated_words,
          words_to_generate, iters, broke, exc, msg, msg_seed, output>>

instance == <<corpus, k>>
cache == <<term_dict, term_dict_is_none>>

\* The values of a call's arguments, locals and result when there is no call.
NoCall ==
    [op |-> "none", seed_is_none |-> TRUE, seed_term |-> NoKey, term_count |-> 0,
     current_state |-> NoKey, generated_words |-> <<>>, words_to_generate |-> 0,
     iters |-> 0, broke |-> FALSE, exc |-> "", msg |-> "", msg_seed |-> NoKey,
     output |-> <<>>]

\* Lines 6-9: MarkovText(corpus, k).
Init ==
    /\ corpus \in StringsUpTo(MaxCorpusLen)
    /\ k \in 1 .. MaxK
    /\ term_dict = EmptyDict
    /\ term_dict_is_none = TRUE
    /\ build_ran = FALSE
    /\ pc = "idle"
    /\ op = NoCall.op
    /\ seed_is_none = NoCall.seed_is_none
    /\ seed_term = NoCall.seed_term
    /\ term_count = NoCall.term_count
    /\ current_state = NoCall.current_state
    /\ generated_words = NoCall.generated_words
    /\ words_to_generate = NoCall.words_to_generate
    /\ iters = NoCall.iters
    /\ broke = NoCall.broke
    /\ exc = NoCall.exc
    /\ msg = NoCall.msg
    /\ msg_seed = NoCall.msg_seed
    /\ output = NoCall.output

\* ------------------------------------------------------------- generate

\* A faulty variant of IndexError: the empty table reported as a ValueError, like the
\* seed failures.
EmptyChoiceValueError == "ValueError"

IndexError == "IndexError"
ValueError == "ValueError"
\* random.choice(list(...)) on an empty list (line 81).
MsgEmpty == "Cannot choose from an empty sequence"
\* Lines 85-88.
MsgShape == "For k={self.k}, seed_term must be a tuple of {self.k} words"
\* Lines 91-93.
MsgNotFound == "Seed term '{seed_term}' not found in corpus"

\* A faulty variant of ShapeError: the isinstance check left out.
ShapeErrorUnchecked(kk, seed) == FALSE

\* Line 84: self.k > 1 and isinstance(seed_term, str).
ShapeError(kk, seed) == kk > 1 /\ ~seed.tuple

\* Line 90: seed_term not in self.term_dict.
SeedMissing(seed, d) == seed \notin DOMAIN d

\* Lines 97-100: the list the output starts with.
InitialWords(kk, state) ==
    IF kk = 1 THEN <<state.words[1]>> ELSE state.words

\* A faulty variant of WordsToGenerate: the seed's words not counted.
WordsToGenerateNoSeed(tc, words) == tc

\* A faulty variant of WordsToGenerate: one iteration too many.
WordsToGenerateOneMore(tc, words) == tc - Len(words) + 1

\* Line 103.
WordsToGenerate(tc, words) == tc - Len(words)

\* A faulty variant of DeadEnd: len(...) <= 1, a single successor taken for none.
DeadEndSingle(state, d) ==
    IF state \notin DOMAIN d THEN TRUE ELSE Len(d[state]) <= 1

\* Lines 106-107: the current state has no following words.
DeadEnd(state, d) ==
    IF state \notin DOMAIN d THEN TRUE ELSE Len(d[state]) = 0

\* words[-n:] for n >= 1.
LastWords(words, n) == Slice(words, Max(0, Len(words) - n), n)

\* A faulty variant of NextState: the state taken from the first words, words[:k],
\* instead of the last.
NextStateStale(kk, words, next_word) ==
    IF kk = 1 THEN Str(words[1]) ELSE Tuple(Slice(words, 0, kk))

\* Lines 116-120: the state after next_word was appended, giving words.
NextState(kk, words, next_word) ==
    IF kk = 1 THEN Str(next_word) ELSE Tuple(LastWords(words, kk))

\* The seeds offered to generate: bare strs and k-tuples over the corpus's
\* tokens and one token foreign to every corpus.
SeedTokens == Range(split(corpus)) \cup {Foreign}
Seeds ==
    {Str(t) : t \in SeedTokens} \cup {Tuple(ws) : ws \in [1 .. k -> SeedTokens]}

\* Lines 31-52 run once more: self.term_dict is assigned a fresh dictionary.
Build ==
    /\ term_dict' = BuildTable(corpus, k)
    /\ term_dict_is_none' = FALSE
    /\ build_ran' = TRUE

\* Lines 75-76: build only when self.term_dict is None.
EnsureBuilt ==
    IF term_dict_is_none THEN Build ELSE UNCHANGED <<cache, build_ran>>

\* generate leaves through a raise (lines 81, 85, 91).
Raise(class, message, seed) ==
    /\ pc' = "raised"
    /\ exc' = class
    /\ msg' = message
    /\ msg_seed' = seed
    /\ UNCHANGED <<current_state, generated_words, words_to_generate, iters,
                   broke, output>>

\* Lines 96-103: the walk starts in state.
StartWalk(state) ==
    /\ pc' = "loop"
    /\ current_state' = state
    /\ generated_words' = InitialWords(k, state)
    /\ words_to_generate' = WordsToGenerate(term_count', generated_words')
    /\ UNCHANGED <<iters, broke, exc, msg, msg_seed, output>>

\* A caller calls get_term_dict() (lines 11-54).
GetTermDict ==
    /\ pc = "idle"
    /\ Build
    /\ pc' = "returned"
    /\ op' = "get_term_dict"
    /\ UNCHANGED <<instance, seed_is_none, seed_term, term_count, current_state,
                   generated_words, words_to_generate, iters, broke, exc, msg,
                   msg_seed, output>>

\* generate(None, tc) up to the loop (lines 74-81, 96-103).
GenerateNoSeed ==
    \E tc \in TermCounts :
        /\ pc = "idle"
        /\ EnsureBuilt
        /\ op' = "generate"
        /\ seed_is_none' = TRUE
        /\ seed_term' = NoKey
        /\ term_count' = tc
        /\ IF DOMAIN term_dict' = {}
           THEN Raise(IndexError, MsgEmpty, NoKey)
           ELSE \E state \in DOMAIN term_dict' : StartWalk(state)
        /\ UNCHANGED instance

\* generate(seed, tc) up to the loop (lines 74-76, 82-103).
GenerateSeed ==
    \E seed \in Seeds, tc \in TermCounts :
        /\ pc = "idle"
        /\ EnsureBuilt
        /\ op' = "generate"
        /\ seed_is_none' = FALSE
        /\ seed_term' = seed
        /\ term_count' = tc
        /\ IF ShapeError(k, seed)
           THEN Raise(ValueError, MsgShape, NoKey)
           ELSE IF SeedMissing(seed, term_dict')
                THEN Raise(ValueError, MsgNotFound, seed)
                ELSE StartWalk(seed)
        /\ UNCHANGED instance

\* Lines 122-123.
Return ==
    /\ pc' = "returned"
    /\ output' = join(generated_words)

\* One iteration of the loop that draws a successor (lines 104, 112-120).
LoopAppend ==
    /\ pc = "loop"
    /\ iters < words_to_generate
    /\ ~DeadEnd(current_state, term_dict)
    /\ \E j \in 1 .. Len(term_dict[current_state]) :
          LET next_word == term_dict[current_state][j]
          IN  /\ generated_words' = Append(generated_words, next_word)
              /\ current_state' = NextState(k, generated_words', next_word)
    /\ iters' = iters + 1
    /\ UNCHANGED <<instance, cache, build_ran, pc, op, seed_is_none, seed_term,
                   term_count, words_to_generate, broke, exc, msg, msg_seed,
                   output>>

\* An iteration that finds a dead end: break, join, return (lines 104-109,
\* 122-123).
LoopBreak ==
    /\ pc = "loop"
    /\ iters < words_to_generate
    /\ DeadEnd(current_state, term_dict)
    /\ broke' = TRUE
    /\ Return
    /\ UNCHANGED <<instance, cache, build_ran, op, seed_is_none, seed_term,
                   term_count, current_state, generated_words,
                   words_to_generate, iters, exc, msg, msg_seed>>

\* The range is exhausted: join, return (lines 104, 122-123).
LoopEnd ==
    /\ pc = "loop"
    /\ iters >= words_to_generate
    /\ Return
    /\ UNCHANGED <<instance, cache, build_ran, op, seed_is_none, seed_term,
                   term_count, current_state, generated_words,
                   words_to_generate, iters, broke, exc, msg, msg_seed>>

\* The call is over: its result went to the caller and its locals are gone.
FrameExit ==
    /\ pc \in {"returned", "raised"}
    /\ pc' = "idle"
    /\ op' = NoCall.op
    /\ seed_is_none' = NoCall.seed_is_none
    /\ seed_term' = NoCall.seed_term
    /\ term_count' = NoCall.term_count
    /\ current_state' = NoCall.current_state
    /\ generated_words' = NoCall.generated_words
    /\ words_to_generate' = NoCall.words_to_generate
    /\ iters' = NoCall.iters
    /\ broke' = NoCall.broke
    /\ exc' = NoCall.exc
    /\ msg' = NoCall.msg
    /\ msg_seed' = NoCall.msg_seed
    /\ output' = NoCall.output
    /\ build_ran' = FALSE
    /\ UNCHANGED <<instance, cache>>

Next ==
    \/ GetTermDict
    \/ GenerateNoSeed
    \/ GenerateSeed
    \/ LoopAppend
    \/ LoopBreak
    \/ LoopEnd
    \/ FrameExit

Spec == Init /\ [][Next]_vars

\* Python runs a started call on: the loop and the return are never left
\* waiting forever.
LiveSpec ==
    Spec /\ WF_vars(LoopAppend) /\ WF_vars(LoopBreak) /\ WF_vars(LoopEnd)

\* ----------------------------------------------------------------- claims

tokens == split(corpus)
\* The number of tokens a seed (given or drawn) contributes to the output.
SeedLen == IF k = 1 THEN 1 ELSE k
\* The window of n tokens of s that starts at 0-based index i.
Window(s, i, n) == [j \in 1 .. n |-> s[i + j]]
\* The key the claims expect for a window of k tokens.
KeyOf(ws) == IF k = 1 THEN Str(ws[1]) ELSE Tuple(ws)
\* The start indices the table of token list toks is built from.
Starts(toks) == 0 .. (Len(toks) - k - 1)
\* The start indices at which key K occurs in toks, and the j-th smallest of
\* a set of indices.
Occ(toks, K) == {i \in Starts(toks) : KeyOf(Window(toks, i, k)) = K}
Nth(occ, j) == CHOOSE i \in occ : Cardinality({m \in occ : m <= i}) = j

RECURSIVE SumLens(_, _)
SumLens(d, keys) ==
    IF keys = {} THEN 0
    ELSE LET K == CHOOSE x \in keys : TRUE
         IN  Len(d[K]) + SumLens(d, keys \ {K})

Returned == pc = "returned" /\ op = "generate"

\* C1: the built table has exactly the keys tokens[i..i+k), 0 <= i <= len-k-1
\* (a bare token for k = 1, a k-tuple for k > 1), and the successor list of
\* each key K is the sequence of tokens[i+k] over the occurrences i of K, in
\* increasing order of i, duplicates kept.
C1_TableExact ==
    ~term_dict_is_none =>
        LET toks == tokens
        IN  /\ DOMAIN term_dict = {KeyOf(Window(toks, i, k)) : i \in Starts(toks)}
            /\ \A K \in DOMAIN term_dict :
                  LET occ == Occ(toks, K)
                  IN  /\ DOMAIN term_dict[K] = 1 .. Cardinality(occ)
                      /\ \A j \in 1 .. Cardinality(occ) :
                            term_dict[K][j] = toks[Nth(occ, j) + k + 1]

\* get_term_dict returned a table with two keys, one of them with two
\* different successors.
C1_Witness ==
    /\ pc = "returned"
    /\ op = "get_term_dict"
    /\ Cardinality(DOMAIN term_dict) >= 2
    /\ \E K \in DOMAIN term_dict :
          Len(term_dict[K]) >= 2 /\ term_dict[K][1] # term_dict[K][2]

\* C2 as stated: for any corpus, the empty one and those with fewer than k
\* tokens included, the successor lists hold len(tokens) - k entries in all
\* and there are at most len(tokens) - k keys.
C2_Original ==
    ~term_dict_is_none =>
        LET n == Len(tokens)
        IN  /\ SumLens(term_dict, DOMAIN term_dict) = n - k
            /\ Cardinality(DOMAIN term_dict) <= n - k

\* C2 amended: the successor lists hold max(0, len(tokens) - k) entries in
\* all and there are at most max(0, len(tokens) - k) keys.
C2_TotalSuccessors ==
    ~term_dict_is_none =>
        LET n == Len(tokens)
        IN  /\ SumLens(term_dict, DOMAIN term_dict) = Max(0, n - k)
            /\ Cardinality(DOMAIN term_dict) <= Max(0, n - k)

\* A table was built from a corpus with fewer than k tokens.
C2_Witness ==
    /\ ~term_dict_is_none
    /\ Len(tokens) < k

\* C3: generate without a seed on an empty table ends in the empty-model
\* error (random.choice's IndexError), which no other failure of generate
\* produces, and returns no string.
C3_EmptyModelError ==
    /\ (op = "generate" /\ seed_is_none /\ DOMAIN term_dict = {}) =>
          (pc = "raised" /\ exc = IndexError /\ output = <<>>)
    /\ (pc = "raised" /\ exc = IndexError) =>
          (seed_is_none /\ DOMAIN term_dict = {})
    /\ (pc = "raised" /\ ~seed_is_none) => exc # IndexError

\* generate(None) failed on a non-empty corpus that is too short for k.
C3_Witness ==
    /\ pc = "raised"
    /\ seed_is_none
    /\ exc = IndexError
    /\ Len(tokens) = k

\* The cause of a seed failure, read off the call's arguments.
BareStrForTuple == ~seed_is_none /\ k > 1 /\ ~seed_term.tuple
AbsentSeed == ~seed_is_none /\ ~BareStrForTuple /\ seed_term \notin DOMAIN term_dict

C5_Original ==
    Returned =>
        LET n == Len(split(output))
        IN  /\ n = Min(term_count, SeedLen + iters)
            /\ n <= term_count

\* C5 amended: a returned output has max(seed_length, min(target_length,
\* seed_length + successors drawn)) tokens: never more than
\* max(target_length, seed_length), and fewer than that only after a dead
\* end.
C5_OutputLength ==
    Returned =>
        LET n == Len(split(output))
        IN  /\ n = Max(SeedLen, Min(term_count, SeedLen + iters))
            /\ n <= Max(term_count, SeedLen)
            /\ ~broke => n = Max(term_count, SeedLen)

\* generate returned for a target_length below the seed's length.
C5_Witness ==
    /\ Returned
    /\ term_count < SeedLen

\* C6: in a returned output every token after the seed is in the successor
\* list of the key made of the k tokens before it, and every k+1 consecutive
\* output tokens are k+1 consecutive tokens of the corpus.
C6_ObservedTransitions ==
    Returned =>
        LET w == split(output)
            toks == tokens
        IN  /\ \A j \in (SeedLen + 1) .. Len(w) :
                  LET ctx == KeyOf(Window(w, j - k - 1, k))
                  IN  /\ ctx \in DOMAIN term_dict
                      /\ w[j] \in Range(term_dict[ctx])
            /\ \A j \in 0 .. (Len(w) - k - 1) :
                  \E i \in Starts(toks) :
                      Window(toks, i, k + 1) = Window(w, j, k + 1)

\* A walk with k = 2 returned after drawing two successors.
C6_Witness ==
    /\ Returned
    /\ k = 2
    /\ iters >= 2
    /\ Len(split(output)) = 4

\* The characters of s at whitespace positions.
Blanks(s) == {s[j] : j \in {x \in 1 .. Len(s) : s[x] \in Whitespace}}
RECURSIVE TotalLen(_)
TotalLen(ws) == IF ws = <<>> THEN 0 ELSE Len(Head(ws)) + TotalLen(Tail(ws))

\* C7: with a valid seed and target_length <= the seed's length, generate
\* draws nothing and returns the seed's tokens, in order, with exactly one
\* space between neighbours.
C7_SeedOnly ==
    (Returned /\ ~seed_is_none /\ term_count <= Len(seed_term.words)) =>
        /\ iters = 0
        /\ ~broke
        /\ split(output) = seed_term.words
        /\ Len(output) = TotalLen(seed_term.words) + Len(seed_term.words) - 1
        /\ Blanks(output) \subseteq {" "}

\* generate returned a 2-tuple seed for a target_length of at most zero.
C7_Witness ==
    /\ Returned
    /\ ~seed_is_none
    /\ seed_term.tuple
    /\ Len(seed_term.words) = 2
    /\ term_count <= 0

\* C8 as stated: on one instance the table is built at most once, whatever
\* the sequence of get_term_dict and generate calls: a call runs the build
\* only when no table is cached yet.
C8_BuildAtMostOnce ==
    [][(build_ran' /\ ~build_ran) => term_dict_is_none]_vars

\* The key made of the last k tokens of the output so far.
Trailing == KeyOf(LastWords(generated_words, k))
\* That key is the last k tokens of the corpus and occurs nowhere before.
OnlyAtCorpusEnd ==
    LET toks == tokens
    IN  /\ Len(toks) >= k
        /\ Trailing = KeyOf(LastWords(toks, k))
        /\ Occ(toks, Trailing) = {}

\* C9: a call that passed the seed checks returns, after at most
\* max(0, target_length - seed_length) iterations; from a context with no
\* entry the next step is the normal return of the tokens produced so far.
C9_Terminates ==
    /\ [](op = "generate" /\ pc \in {"loop", "returned"} =>
            iters + (IF broke THEN 1 ELSE 0) <= Max(0, term_count - SeedLen))
    /\ (pc = "loop") ~> (pc = "returned")
    /\ [][(pc = "loop" /\ current_state \notin DOMAIN term_dict) =>
            (pc' = "returned" /\ exc' = "" /\ split(output') = generated_words)]_vars

\* A walk drew a successor, hit a dead end and returned.
C9_Witness ==
    /\ Returned
    /\ broke
    /\ iters >= 1
    /\ Len(split(output)) < term_count

\* C10: every key of a built table has a successor, so a returned output is
\* shorter than target_length only when its last k tokens are the last k
\* tokens of the corpus and occur nowhere before; from any other context a
\* loop iteration appends a token.
C10_StopsOnlyAtCorpusEnd ==
    /\ [](~term_dict_is_none => \A K \in DOMAIN term_dict : Len(term_dict[K]) >= 1)
    /\ []((Returned /\ Len(split(output)) < term_count) => OnlyAtCorpusEnd)
    /\ [][(pc = "loop" /\ iters < words_to_generate /\ ~OnlyAtCorpusEnd) =>
            Len(generated_words') = Len(generated_words) + 1]_vars

\* A walk with k = 2 stopped short of target_length on the corpus's last two
\* tokens.
C10_Witness ==
    /\ Returned
    /\ k = 2
    /\ iters >= 1
    /\ Len(split(output)) < term_count

====
